---- MODULE Spec2Model ----
(***************************************************************************)
(* A model of shopify-bulk-tool-graphql: the JSONL line parser (utils.js), *)
(* the GraphQL transport with retry/backoff (client.js), the bulk          *)
(* operation lifecycle (bulkOperation.js) and the two public entry points  *)
(* (index.js).                                                             *)
(*                                                                         *)
(* Text is a sequence of characters.  The characters that matter to the    *)
(* parser are named: "LF" (line feed), "CR" (carriage return), "SP"        *)
(* (space), "Q" (double quote), "B" (backslash); every other character is  *)
(* itself ("0".."9", "x", "n", "r").                                       *)
(***************************************************************************)
EXTENDS Integers, Sequences, FiniteSets, TLC

\* ------------------------------------------------------------------ bounds

\* Longest raw text handed to the parser.
MaxLen == 4
\* Most records in a serialized record sequence.
MaxRecords == 3

\* ------------------------------------------------------- JSON values, text

Digits == {"0", "1", "2", "3", "4", "5", "6", "7", "8", "9"}

\* The characters JSON.parse skips around a value.
JsonWhitespace == {"SP", "LF", "CR"}

\* The characters String.prototype.trim strips (those of the model's alphabet).
TrimWhitespace == {"SP", "LF", "CR"}

\* The string values of the records: empty, plain, and with the characters
\* JSON.stringify escapes (line feed, carriage return, quote, backslash).
StrValues == { <<>>, <<"x">>, <<"LF">>, <<"Q">>, <<"B">>, <<"SP">>,
               <<"x", "LF">>, <<"B", "Q">>, <<"CR", "LF">> }

\* The numbers a record may be.
Numbers == {0, 7, 10}

Num(n) == [t |-> "num", n |-> n, s |-> <<>>]
Str(s) == [t |-> "str", n |-> 0, s |-> s]

SeqsUpTo(S, k) == UNION {[1..m -> S] : m \in 0..k}

\* The JSON-serializable records of the model: numbers and strings.
Records == {Num(n) : n \in Numbers} \cup {Str(s) : s \in StrValues}

RECURSIVE Decimal(_)
Decimal(n) == IF n < 10 THEN <<ToString(n)>>
              ELSE Decimal(n \div 10) \o <<ToString(n % 10)>>

DigitValue(c) == CHOOSE d \in 0..9 : ToString(d) = c

RECURSIVE NumberValue(_)
NumberValue(s) == IF Len(s) = 0 THEN 0
                  ELSE 10 * NumberValue(SubSeq(s, 1, Len(s) - 1)) + DigitValue(s[Len(s)])

\* JSON.stringify of one character of a string value.
EscapeChar(c) == CASE c = "LF" -> <<"B", "n">>
                   [] c = "CR" -> <<"B", "r">>
                   [] c = "Q"  -> <<"B", "Q">>
                   [] c = "B"  -> <<"B", "B">>
                   [] OTHER    -> <<c>>

RECURSIVE EscapeString(_)
EscapeString(s) == IF s = <<>> THEN <<>>
                   ELSE EscapeChar(Head(s)) \o EscapeString(Tail(s))

\* JSON.stringify(value): the value on one line.
JSONstringify(v) == IF v.t = "num" THEN Decimal(v.n)
                    ELSE <<"Q">> \o EscapeString(v.s) \o <<"Q">>

RECURSIVE TrimLeft(_, _)
TrimLeft(s, ws) == IF s # <<>> /\ Head(s) \in ws THEN TrimLeft(Tail(s), ws) ELSE s

RECURSIVE TrimRight(_, _)
TrimRight(s, ws) == IF s # <<>> /\ s[Len(s)] \in ws
                    THEN TrimRight(SubSeq(s, 1, Len(s) - 1), ws) ELSE s

\* String.prototype.trim
trim(s) == TrimRight(TrimLeft(s, TrimWhitespace), TrimWhitespace)

ParseFail == [ok |-> FALSE, v |-> Num(0)]
ParseOk(v) == [ok |-> TRUE, v |-> v]

\* The characters of a JSON string token between its quotes, decoded.
RECURSIVE Unescape(_, _)
Unescape(s, acc) ==
    IF s = <<>> THEN ParseOk(Str(acc))
    ELSE LET c == Head(s) IN
         IF c \in {"Q", "LF", "CR"} THEN ParseFail
         ELSE IF c = "B"
              THEN IF Len(s) < 2 THEN ParseFail
                   ELSE LET e == s[2]
                            rest == SubSeq(s, 3, Len(s)) IN
                        CASE e = "n" -> Unescape(rest, Append(acc, "LF"))
                          [] e = "r" -> Unescape(rest, Append(acc, "CR"))
                          [] e = "Q" -> Unescape(rest, Append(acc, "Q"))
                          [] e = "B" -> Unescape(rest, Append(acc, "B"))
                          [] OTHER   -> ParseFail
              ELSE Unescape(Tail(s), Append(acc, c))

IsNumberToken(s) == /\ Len(s) >= 1
                    /\ \A i \in 1..Len(s) : s[i] \in Digits
                    /\ (Len(s) > 1 => s[1] # "0")

\* JSON.parse(line): one JSON value with optional whitespace around it, or a
\* SyntaxError (ok = FALSE).
JSONparse(line) ==
    LET s == TrimRight(TrimLeft(line, JsonWhitespace), JsonWhitespace) IN
    IF IsNumberToken(s) THEN ParseOk(Num(NumberValue(s)))
    ELSE IF Len(s) >= 2 /\ s[1] = "Q" /\ s[Len(s)] = "Q"
         THEN Unescape(SubSeq(s, 2, Len(s) - 1), <<>>)
         ELSE ParseFail

\* ------------------------------------------------------------ line parser

\* The lines readline yields for an input with crlfDelay: Infinity: the text
\* is cut at every LF, CR LF and lone CR; what follows the last line break is
\* a line only when it is not empty.
RECURSIVE ReadLines(_, _, _)
ReadLines(s, cur, acc) ==
    IF s = <<>> THEN (IF cur # <<>> THEN Append(acc, cur) ELSE acc)
    ELSE LET c == Head(s) IN
         IF c = "LF" THEN ReadLines(Tail(s), <<>>, Append(acc, cur))
         ELSE IF c = "CR"
              THEN IF Len(s) >= 2 /\ s[2] = "LF"
                   THEN ReadLines(SubSeq(s, 3, Len(s)), <<>>, Append(acc, cur))
                   ELSE ReadLines(Tail(s), <<>>, Append(acc, cur))
              ELSE ReadLines(Tail(s), Append(cur, c), acc)

\* String.prototype.split on one separator character: always at least one
\* piece.
RECURSIVE Split(_, _, _, _)
Split(s, sep, cur, acc) ==
    IF s = <<>> THEN Append(acc, cur)
    ELSE IF Head(s) = sep THEN Split(Tail(s), sep, <<>>, Append(acc, cur))
         ELSE Split(Tail(s), sep, Append(cur, Head(s)), acc)

Parsed(rs) == [ok |-> TRUE, records |-> rs, line |-> 0]
ParseError(k) == [ok |-> FALSE, records |-> <<>>, line |-> k]

\* The lines the stream parser's loop skips.
IsBlank(line) == trim(line) = <<>>

\* The for-await loop of the stream parser over the lines, lineNumber being
\* the number of lines already taken.
RECURSIVE ParseLinesMutant(_, _, _)
ParseLinesMutant(lines, lineNumber, results) ==
    IF lines = <<>> THEN Parsed(results)
    ELSE LET line == Head(lines)
             r == JSONparse(line) IN
         IF IsBlank(line) THEN ParseLinesMutant(Tail(lines), lineNumber, results)
         ELSE IF r.ok
              THEN ParseLinesMutant(Tail(lines), lineNumber + 1, Append(results, r.v))
              ELSE ParseError(lineNumber + 1)

RECURSIVE ParseLines(_, _, _)
ParseLines(lines, lineNumber, results) ==
    IF lines = <<>> THEN Parsed(results)
    ELSE LET line == Head(lines)
             r == JSONparse(line) IN
         IF IsBlank(line) THEN ParseLines(Tail(lines), lineNumber + 1, results)
         ELSE IF r.ok THEN ParseLines(Tail(lines), lineNumber + 1, Append(results, r.v))
              ELSE ParseError(lineNumber + 1)

\* parseJsonl(stream), utils.js as imported by bulkOperation.js.
parseJsonlMutant(text) ==
    LET lines == ReadLines(text, <<>>, <<>>) IN
    ParseLines(IF lines = <<>> THEN lines ELSE Tail(lines), 1, <<>>)
parseJsonl(text) == ParseLines(ReadLines(text, <<>>, <<>>), 0, <<>>)

\* lines.map(JSON.parse) of the string parser: the first line that does not
\* parse throws.
RECURSIVE MapParse(_, _, _)
MapParse(lines, index, results) ==
    IF lines = <<>> THEN Parsed(results)
    ELSE LET r == JSONparse(Head(lines)) IN
         IF r.ok THEN MapParse(Tail(lines), index + 1, Append(results, r.v))
         ELSE ParseError(index + 1)

\* parseJsonl(jsonlData), the earlier utils.js that takes the whole text.
parseJsonlString(text) ==
    IF text = <<>> THEN Parsed(<<>>)
    ELSE MapParse(Split(trim(text), "LF", <<>>, <<>>), 0, <<>>)

\* Each record on one line, the lines joined by the line terminator, with or
\* without a terminator after the last line.
RECURSIVE JoinLines(_, _, _)
JoinLines(rs, term, trailing) ==
    IF rs = <<>> THEN <<>>
    ELSE JSONstringify(Head(rs))
         \o (IF Tail(rs) # <<>> \/ trailing THEN term ELSE <<>>)
         \o JoinLines(Tail(rs), term, trailing)

LineTerminators == {<<"LF">>, <<"CR", "LF">>}


\* ------------------------------------------------------ program constants

\* makeShopifyRequest's default parameters
DEFAULT_MAX_RETRIES == 3
DEFAULT_INITIAL_DELAY_MS == 500
\* pollBulkOperationStatus's default parameters
maxPollNotFoundRetries == 3
pollNotFoundDelayMs == 1000

\* ------------------------------------------------------- bounds and inputs

\* The timeouts a caller passes are 1000 ms .. MaxTimeoutSteps * 1000 ms; the
\* caller passes both timeoutMs and pollIntervalMs.
MaxTimeoutSteps == 3
\* A request is answered after 0 .. MaxLatencySteps * 500 ms.
MaxLatencySteps == 1
\* Most faults of one invocation: requests that fail and status answers that
\* report no operation.
MaxFaults == 4
\* Most faults of an invocation whose polls are followed to their last request.
PollFaults == 17

NULL == "null"

TimeoutInputs == {1000 * k : k \in 1..MaxTimeoutSteps}
PollIntervalInputs == {1000, 2000}
Latencies == {500 * k : k \in 0..MaxLatencySteps}

\* The option objects passed to the entry points; "" is a missing or empty
\* option (both are falsy).
Options == [shop : {"", "shop"}, accessToken : {"", "token"}, body : {"", "op"},
            filePath : {"", "out.json"},
            pollIntervalMs : PollIntervalInputs, timeoutMs : TimeoutInputs]

NonTerminal == {"CREATED", "RUNNING", "CANCELING"}
TerminalFailure == {"FAILED", "CANCELLED", "EXPIRED"}
Terminal == {"COMPLETED"} \cup TerminalFailure
Statuses == NonTerminal \cup Terminal

Handle(st, url, code) == [status |-> st, url |-> url, errorCode |-> code]
NoHandle == Handle("none", NULL, NULL)

\* The bulkOperation objects the API answers with: a result URL comes with
\* COMPLETED only, an error code with a failure status only.
Handles ==
    {Handle(st, NULL, NULL) : st \in NonTerminal}
    \cup {Handle("COMPLETED", u, NULL) : u \in {NULL, "url"}}
    \cup {Handle(st, NULL, c) : st \in TerminalFailure, c \in {NULL, "INTERNAL_SERVER_ERROR"}}

\* data[mutationName] of a start response.
StartData == [userErrors : {0, 1}, bulkOperation : Handles \cup {NoHandle}]
\* data.currentBulkOperation of a status response (NoHandle: null).
PollData == Handles \cup {NoHandle}

\* What one HTTP request ends in, other than a 2xx response with data and no
\* errors.
FailureKinds == {"graphql", "graphqlWithData", "nodata", "http429", "http5xx",
                 "http4xx", "network"}

\* The bodies a result URL serves.
Contents == { <<>>,
              <<"7", "LF">>,
              <<"7", "LF", "Q", "x", "Q">>,
              <<"7", "CR", "LF", "LF", "1", "0", "LF">>,
              <<"7", "LF", "x", "LF", "7">> }

OldFile == <<"o", "l", "d">>

NotRun == [ok |-> FALSE, records |-> <<>>, line |-> -1]

\* What a call ended in: kind "records" (the records are returned), "persisted"
\* (null is returned), "data" (makeShopifyRequest's data) or "error" (thrown:
\* the error, and the status, error code or line number its message carries).
NoOutcome == [kind |-> "none", error |-> "", status |-> "", errorCode |-> "", line |-> 0]
Returned(kind) == [NoOutcome EXCEPT !.kind = kind]
Threw(error, status, code) ==
    [NoOutcome EXCEPT !.kind = "error", !.error = error, !.status = status,
                      !.errorCode = code]
ThrewParse(k) == [NoOutcome EXCEPT !.kind = "error", !.error = "parse", !.line = k]

\* JSON.stringify(results, null, 2): "[]" for no record, otherwise one record
\* per line, indented by two spaces.
RECURSIVE StringifyItems(_)
StringifyItems(rs) ==
    IF rs = <<>> THEN <<>>
    ELSE <<"LF", "SP", "SP">> \o JSONstringify(Head(rs))
         \o (IF Tail(rs) # <<>> THEN <<",">> ELSE <<>>)
         \o StringifyItems(Tail(rs))

StringifyArray(rs) == IF rs = <<>> THEN <<"[", "]">>
                      ELSE <<"[">> \o StringifyItems(rs) \o <<"LF", "]">>

\* No start response yet.
NoAnswer == [userErrors |-> 0, bulkOperation |-> Handle("unanswered", NULL, NULL)]

\* A GraphQL operation and its variables.
Operation(name, variables) == [name |-> name, variables |-> variables]
NoQuery == Operation("", <<>>)

VARIABLES
    pc,           \* where the invocation is suspended
    opts,         \* the option object of the call
    isMutation,
    now,          \* Date.now()
    startTime,
    operation,    \* the last bulkOperation snapshot
    outcome,      \* what the call returned or threw
    results,      \* the records parsed
    file,         \* the content of the output target
    writes,       \* fs.writeFile calls
    log,          \* the lifecycle's steps, in order
    observed,     \* the statuses of the snapshots start and poll returned
    answer,       \* data[mutationName] of the start response
    caller,       \* who awaits makeShopifyRequest
    attempt, currentDelay, maxRetries, initialDelayMs,
    sendLog,      \* requests and backoff sleeps of the current makeShopifyRequest
    failures,     \* what the failed requests of a direct call came back as
    query,        \* the GraphQL operation of the current makeShopifyRequest
    requests,     \* HTTP requests to the GraphQL endpoint
    faults,       \* failed requests and status answers without an operation
    nfAttempt,    \* pollBulkOperationStatus's attempt
    pollRequests, \* HTTP requests of the latest pollBulkOperationStatus call
    synthetic,    \* the snapshots pollBulkOperationStatus made up
    budget,       \* the faults that may happen
    body,         \* the text the result URL served
    stream,       \* the download's body stream
    recs, jsonl, out, outString, origin,
    cur,          \* the invocation that runs, of two concurrent ones (0: a single one)
    other         \* the locals of the invocation that is suspended

runVars == <<opts, isMutation, startTime, operation, results, file, writes, log,
             observed, answer, nfAttempt, body, stream>>
sendVars == <<caller, attempt, currentDelay, maxRetries, initialDelayMs, sendLog,
              failures, query, requests>>
parseVars == <<recs, jsonl, out, outString, origin>>
pairVars == <<cur, other>>
\* What no step of the current lifecycle changes.
fixedVars == <<budget, synthetic>>
vars == <<pc, now, outcome, faults, runVars, sendVars, parseVars, pairVars, fixedVars,
          pollRequests>>

RunInit == /\ isMutation = FALSE /\ startTime = 0 /\ operation = NoHandle
           /\ results = <<>> /\ file = OldFile /\ writes = 0 /\ log = <<>>
           /\ observed = <<>> /\ answer = NoAnswer /\ nfAttempt = 0 /\ body = <<>> /\ stream = "none"
           /\ pollRequests = 0 /\ synthetic = 0
SendInit == /\ caller = "none" /\ attempt = 0 /\ currentDelay = 0 /\ maxRetries = 0
            /\ initialDelayMs = 0 /\ sendLog = <<>> /\ failures = <<>>
            /\ query = NoQuery
            /\ requests = 0
ParseInit == /\ recs = <<>> /\ jsonl = <<>> /\ out = NotRun /\ outString = NotRun
             /\ origin = "none"
\* One invocation on its own.
Single == cur = 0 /\ other = <<>>

\* ----------------------------------------------------------- the transport

\* The faults left to happen; two concurrent invocations run without faults.
FaultsLeft == cur = 0 /\ faults < budget

\* An error leaves the invocation: no caller of makeShopifyRequest, and no
\* entry point, catches it.
ThrowMutant(e) == pc' = "done" /\ outcome' = Returned("persisted")
Throw(e) == pc' = "done" /\ outcome' = e

\* makeShopifyRequest(...) up to its first await: attempt 1 is in flight.
Send(c, q, m, d) ==
    /\ caller' = c /\ query' = q /\ maxRetries' = m /\ initialDelayMs' = d
    /\ attempt' = 1 /\ currentDelay' = d
    /\ sendLog' = <<"request">>
    /\ failures' = <<>>
    /\ requests' = requests + 1
    /\ pc' = "fetch"

\* The retry branch of the try block: a 429 or 5xx response with retries left.
RetryInTry(kind) == kind \in {"http429", "http5xx"} /\ attempt <= maxRetries

\* The catch block: whatever was thrown inside the try block (the network
\* error of fetch, but also the GraphQL, missing-data and HTTP errors thrown
\* by the try block itself) is retried while retries are left.
RetryInCatchMutant(kind) == TRUE
RetryInCatch(kind) == attempt <= maxRetries

\* A request comes back as anything but a 2xx response with data and no errors.
RequestFails ==
    /\ pc = "fetch"
    /\ FaultsLeft
    /\ faults' = faults + 1
    /\ \E kind \in FailureKinds, lat \in Latencies :
        /\ now' = now + lat
        /\ failures' = IF caller = "send" THEN Append(failures, kind) ELSE failures
        /\ IF RetryInTry(kind) \/ RetryInCatch(kind)
           THEN /\ pc' = "backoff"
                /\ sendLog' = Append(sendLog, ToString(currentDelay))
                /\ UNCHANGED outcome
           ELSE /\ Throw(Threw(kind, "", ""))
                /\ UNCHANGED sendLog
    /\ UNCHANGED <<runVars, parseVars, pairVars, fixedVars, pollRequests,
                   caller, query, attempt, currentDelay, maxRetries,
                   initialDelayMs, requests>>

NextDelayMutant(d) == d
NextDelayCappedMutant(d) == IF d * 2 > 2000 THEN 2000 ELSE d * 2
NextDelay(d) == d * 2

\* delay(currentDelay) is over: the delay doubles and the next attempt is sent.
BackoffElapses ==
    /\ pc = "backoff"
    /\ now' = now + currentDelay
    /\ currentDelay' = NextDelay(currentDelay)
    /\ attempt' = attempt + 1
    /\ sendLog' = Append(sendLog, "request")
    /\ requests' = requests + 1
    /\ pc' = "fetch"
    /\ pollRequests' = IF caller = "poll" THEN pollRequests + 1 ELSE pollRequests
    /\ UNCHANGED <<outcome, faults, runVars, parseVars, pairVars, fixedVars,
                   caller, query, maxRetries,
                   initialDelayMs, failures>>

\* The inputs of a direct call.
RetryInputs == -1..DEFAULT_MAX_RETRIES
DelayInputs == {DEFAULT_INITIAL_DELAY_MS, 1000}

\* A direct call of makeShopifyRequest with its own maxRetries and
\* initialDelayMs; with maxRetries < 0 the loop is never entered.
makeShopifyRequest ==
    /\ pc = "caller"
    /\ \E m \in RetryInputs, d \in DelayInputs :
        IF 0 <= m
        THEN Send("send", Operation("query", <<"variables">>), m, d) /\ UNCHANGED outcome
        ELSE /\ Throw(Threw("definitive", "", ""))
             /\ maxRetries' = m /\ initialDelayMs' = d /\ currentDelay' = d
             /\ UNCHANGED <<caller, attempt, sendLog, failures, query, requests>>
    /\ UNCHANGED <<now, faults, runVars, parseVars, pairVars,
                   fixedVars, pollRequests>>

\* The direct call's request is answered with data: the data is returned.
SendResponds ==
    /\ pc = "fetch" /\ caller = "send"
    /\ \E lat \in Latencies : now' = now + lat
    /\ pc' = "done"
    /\ outcome' = Returned("data")
    /\ UNCHANGED <<faults, runVars, sendVars, parseVars, pairVars,
                   fixedVars, pollRequests>>


\* -------------------------------------------------- the operation lifecycle

\* The check of the entry points: every required option is truthy.
HasRequiredMutant(o) == o.shop # "" /\ o.body # ""
HasRequired(o) == o.shop # "" /\ o.accessToken # "" /\ o.body # ""

\* The start mutation's name.
mutationNameMutant(isMut) == "bulkOperationRunQuery"
mutationName(isMut) == IF isMut THEN "bulkOperationRunMutation" ELSE "bulkOperationRunQuery"

\* The status query of pollBulkOperationStatus, with the operation's id.
CurrentBulkOperation == Operation("currentBulkOperation", <<"operationId">>)

\* executeBulkOperation up to its first await: the clock is read, then
\* startBulkOperation sends the start mutation with the default retry
\* parameters.
executeBulkOperation ==
    /\ startTime' = now
    /\ log' = <<"start">>
    /\ Send("start", Operation(mutationName(isMutation'), <<opts.body>>),
            DEFAULT_MAX_RETRIES, DEFAULT_INITIAL_DELAY_MS)
    /\ UNCHANGED <<now, outcome, faults, answer, opts, operation, results, file, writes, observed,
                   nfAttempt, body, stream, parseVars, pairVars,
                   fixedVars, pollRequests>>

\* Of two concurrent invocations, the first one is a call of
\* runShopifyBulkQuery and the second one a call of runShopifyBulkMutation.
EntryPoint(mutation) ==
    /\ pc = "idle"
    /\ cur # 0 => mutation = (cur = 2)
    /\ isMutation' = mutation
    /\ IF HasRequired(opts)
       THEN executeBulkOperation
       ELSE /\ Throw(Threw("validation", "", ""))
            /\ UNCHANGED <<now, faults, answer, opts, startTime, operation, results, file, writes,
                           log, observed, nfAttempt, body, stream,
                           sendVars, parseVars, pairVars,
                   fixedVars, pollRequests>>

runShopifyBulkQuery == EntryPoint(FALSE)
runShopifyBulkMutation == EntryPoint(TRUE)

\* The start request is answered with data: the rest of startBulkOperation.
StartResponds ==
    /\ pc = "fetch" /\ caller = "start"
    /\ \E data \in StartData, lat \in Latencies :
        /\ now' = now + lat
        /\ answer' = data
        /\ IF data.userErrors > 0
           THEN Throw(Threw("userErrors", "", "")) /\ UNCHANGED <<operation, observed>>
           ELSE IF data.bulkOperation = NoHandle
                THEN Throw(Threw("start", "", "")) /\ UNCHANGED <<operation, observed>>
                ELSE /\ operation' = data.bulkOperation
                     /\ observed' = <<data.bulkOperation.status>>
                     /\ pc' = "loop"
                     /\ UNCHANGED outcome
    /\ UNCHANGED <<faults, opts, isMutation, startTime, results, file, writes, log,
                   nfAttempt, body, stream, sendVars, parseVars, pairVars,
                   fixedVars, pollRequests>>

\* After a status answer without an operation, attempt a of the poll is
\* followed by another one.
RetryNotFoundMutant(a) == a < maxPollNotFoundRetries
RetryNotFound(a) == a <= maxPollNotFoundRetries

\* A status request is answered with data: the rest of one attempt of
\* pollBulkOperationStatus.
PollResponds ==
    /\ pc = "fetch" /\ caller = "poll"
    /\ \E data \in PollData, lat \in Latencies :
        /\ now' = now + lat
        /\ IF data # NoHandle
           THEN /\ operation' = data
                /\ observed' = Append(observed, data.status)
                /\ pc' = "loop"
                /\ UNCHANGED <<outcome, faults>>
           ELSE /\ FaultsLeft
                /\ faults' = faults + 1
                /\ UNCHANGED <<operation, observed>>
                /\ IF RetryNotFound(nfAttempt)
                   THEN pc' = "nfsleep" /\ UNCHANGED outcome
                   ELSE Throw(Threw("notFound", "", ""))
    /\ UNCHANGED <<answer, opts, isMutation, startTime, results, file, writes, log,
                   nfAttempt, body, stream, sendVars, parseVars, pairVars,
                   fixedVars, pollRequests>>

\* delay(pollNotFoundDelayMs) is over: the next attempt of the poll.
NotFoundDelayElapses ==
    /\ pc = "nfsleep"
    /\ now' = now + pollNotFoundDelayMs
    /\ nfAttempt' = nfAttempt + 1
    /\ pollRequests' = pollRequests + 1
    /\ Send("poll", CurrentBulkOperation, DEFAULT_MAX_RETRIES, DEFAULT_INITIAL_DELAY_MS)
    /\ UNCHANGED <<outcome, faults, answer, opts, isMutation, startTime, operation,
                   results, file, writes, log, observed, body, stream, parseVars, pairVars,
                   fixedVars>>

\* The condition of the while loop.
WithinTimeoutMutant == now - startTime <= opts.timeoutMs
WithinTimeout == now - startTime < opts.timeoutMs

\* The status that takes the loop to result handling.
IsCompletedMutant(op) == op.status = "COMPLETED" /\ op.url # NULL
IsCompleted(op) == op.status = "COMPLETED"

\* The statuses that end the loop with the operation-failed error.
IsFailureMutant(st) == st = "FAILED"
IsFailure(st) == st \in {"FAILED", "CANCELLED", "EXPIRED"}

HasFilePathMutant == TRUE
HasFilePath == opts.filePath # ""

\* One pass of the while loop, from its condition to the next await.
LoopIteration ==
    /\ pc = "loop"
    /\ IF ~WithinTimeout
       THEN /\ Throw(Threw("timeout", operation.status, ""))
            /\ UNCHANGED <<results, writes, log>>
       ELSE IF IsCompleted(operation)
            THEN IF operation.url = NULL
                 THEN IF HasFilePath
                      THEN /\ pc' = "write"
                           /\ writes' = writes + 1
                           /\ log' = Append(log, "write")
                           /\ UNCHANGED <<outcome, results>>
                      ELSE /\ pc' = "done"
                           /\ outcome' = Returned("records")
                           /\ results' = <<>>
                           /\ UNCHANGED <<writes, log>>
                 ELSE /\ pc' = "download"
                      /\ log' = Append(log, "download")
                      /\ UNCHANGED <<outcome, results, writes>>
            ELSE IF IsFailure(operation.status)
                 THEN /\ Throw(Threw("operationFailed", operation.status,
                                     operation.errorCode))
                      /\ UNCHANGED <<results, writes, log>>
                 ELSE /\ pc' = "sleep"
                      /\ log' = Append(log, "sleep")
                      /\ UNCHANGED <<outcome, results, writes>>
    /\ UNCHANGED <<now, faults, answer, opts, isMutation, startTime, operation, file,
                   observed, nfAttempt, body, stream, sendVars, parseVars, pairVars,
                   fixedVars, pollRequests>>

\* delay(pollIntervalMs) is over: pollBulkOperationStatus sends its first
\* status request.
PollDelayElapses ==
    /\ pc = "sleep"
    /\ now' = now + opts.pollIntervalMs
    /\ log' = Append(log, "poll")
    /\ nfAttempt' = 1
    /\ pollRequests' = 1
    /\ Send("poll", CurrentBulkOperation, DEFAULT_MAX_RETRIES, DEFAULT_INITIAL_DELAY_MS)
    /\ UNCHANGED <<outcome, faults, answer, opts, isMutation, startTime, operation,
                   results, file, writes, observed, body, stream, parseVars, pairVars,
                   fixedVars>>

\* What fetch(url) of downloadResults ends in.
DownloadAnswers == {"ok", "notOk", "nullBody", "network"}

\* downloadResults: the answer to fetch(url); with a body, parseJsonl starts
\* to read it.
DownloadResponds ==
    /\ pc = "download"
    /\ \E r \in DownloadAnswers :
        IF r = "ok"
        THEN /\ \E c \in Contents : body' = c
             /\ stream' = "open"
             /\ pc' = "parse"
             /\ log' = Append(log, "parse")
             /\ UNCHANGED outcome
        ELSE /\ Throw(Threw("download", "", ""))
             /\ UNCHANGED <<body, stream, log>>
    /\ UNCHANGED <<now, faults, answer, opts, isMutation, startTime, operation, results,
                   file, writes, observed, nfAttempt, sendVars, parseVars, pairVars,
                   fixedVars, pollRequests>>

\* stream.destroy()
destroyMutant(st) == st
destroy(st) == "destroyed"

\* The parse of the body throws: a line of it is not a JSON value.
ParseThrowsMutant(r) == FALSE
ParseThrows(r) == ~r.ok

\* parseJsonl(resultStream) ends: the stream is read to its end, or a line does
\* not parse, or the stream emits an error; then the output policy.
ParseCompletes ==
    /\ pc = "parse"
    /\ \E streamError \in BOOLEAN :
        LET r == parseJsonl(body) IN
        IF streamError
        THEN /\ stream' = destroy(stream)
             /\ Throw(Threw("stream", "", ""))
             /\ UNCHANGED <<results, writes, log>>
        ELSE IF ParseThrows(r)
             THEN /\ stream' = destroy(stream)
                  /\ Throw(ThrewParse(r.line))
                  /\ UNCHANGED <<results, writes, log>>
             ELSE /\ stream' = "consumed"
                  /\ results' = r.records
                  /\ IF HasFilePath
                     THEN /\ pc' = "write"
                          /\ writes' = writes + 1
                          /\ log' = Append(log, "write")
                          /\ UNCHANGED outcome
                     ELSE /\ pc' = "done"
                          /\ outcome' = Returned("records")
                          /\ UNCHANGED <<writes, log>>
    /\ UNCHANGED <<now, faults, answer, opts, isMutation, startTime, operation, file,
                   observed, nfAttempt, body, sendVars, parseVars, pairVars,
                   fixedVars, pollRequests>>

\* The data handed to fs.writeFile: '' for a completed operation without a
\* result URL, the JSON array of the records otherwise.
FileData == IF operation.url = NULL THEN <<>> ELSE StringifyArray(results)

\* fs.writeFile ends: the target holds the data and null is returned, or the
\* write fails, leaving the target as it was or truncated.
WriteCompletes ==
    /\ pc = "write"
    /\ \/ /\ file' = FileData
          /\ pc' = "done"
          /\ outcome' = Returned("persisted")
       \/ /\ file' \in {file, <<>>}
          /\ Throw(Threw("write", "", ""))
    /\ UNCHANGED <<now, faults, answer, opts, isMutation, startTime, operation, results,
                   writes, log, observed, nfAttempt, body, stream, sendVars,
                   parseVars, pairVars,
                   fixedVars, pollRequests>>

\* What Date.now() reads when the entry point is called.
ClockInputs == {0, 500}

\* An entry point is about to be called; at most b requests or status answers
\* will fail.
InitBudget(b) ==
    /\ pc = "idle" /\ opts \in Options /\ now \in ClockInputs /\ outcome = NoOutcome
    /\ faults = 0 /\ budget = b
    /\ RunInit /\ SendInit /\ ParseInit /\ Single

Init == InitBudget(MaxFaults)

Next == \/ runShopifyBulkQuery
        \/ runShopifyBulkMutation
        \/ RequestFails
        \/ BackoffElapses
        \/ StartResponds
        \/ PollResponds
        \/ NotFoundDelayElapses
        \/ LoopIteration
        \/ PollDelayElapses
        \/ DownloadResponds
        \/ ParseCompletes
        \/ WriteCompletes

Spec == Init /\ [][Next]_vars


\* ------------------------------------------- makeShopifyRequest on its own

\* No entry point is called: the option object plays no part.
NoOptions == [shop |-> "", accessToken |-> "", body |-> "", filePath |-> "",
              pollIntervalMs |-> 0, timeoutMs |-> 0]

InitSend == /\ pc = "caller" /\ opts = NoOptions
            /\ now = 0 /\ outcome = NoOutcome /\ faults = 0 /\ budget = MaxFaults
            /\ RunInit /\ SendInit /\ ParseInit /\ Single

NextSend == \/ makeShopifyRequest
            \/ RequestFails
            \/ BackoffElapses
            \/ SendResponds

SpecSend == InitSend /\ [][NextSend]_vars

\* Every request is answered and every backoff delay ends.
SpecSendLive == InitSend /\ [][NextSend]_vars /\ WF_vars(NextSend)

\* ------------------------------------------------- the line parser on its own

\* The characters of the raw texts handed to the parsers.
RawChars == {"LF", "CR", "SP", "7", "x"}

\* Either a record sequence to serialize, or a raw text.
InitParse == /\ now = 0 /\ outcome = NoOutcome /\ faults = 0 /\ budget = MaxFaults
             /\ opts = NoOptions
             /\ RunInit /\ SendInit /\ Single
             /\ out = NotRun /\ outString = NotRun
             /\ \/ /\ pc = "records" /\ origin = "records"
                   /\ recs \in SeqsUpTo(Records, MaxRecords)
                   /\ jsonl = <<>>
                \/ /\ pc = "text" /\ origin = "raw"
                   /\ recs = <<>>
                   /\ jsonl \in SeqsUpTo(RawChars, MaxLen)

\* Each record is serialized to one line and the lines are joined.
Serialize ==
    /\ pc = "records"
    /\ \E term \in LineTerminators, trailing \in BOOLEAN :
        jsonl' = JoinLines(recs, term, trailing)
    /\ pc' = "text"
    /\ UNCHANGED <<now, outcome, faults, runVars, sendVars, pairVars, fixedVars, pollRequests,
                   recs, out, outString,
                   origin>>

\* The text is served as a stream to parseJsonl of utils.js.
ParseStream ==
    /\ pc = "text" /\ out = NotRun
    /\ out' = parseJsonl(jsonl)
    /\ UNCHANGED <<pc, now, outcome, faults, runVars, sendVars, pairVars, fixedVars, pollRequests,
                   recs, jsonl,
                   outString, origin>>

\* The text is handed as a string to the earlier parseJsonl.
ParseString ==
    /\ pc = "text" /\ outString = NotRun
    /\ outString' = parseJsonlString(jsonl)
    /\ UNCHANGED <<pc, now, outcome, faults, runVars, sendVars, pairVars, fixedVars, pollRequests,
                   recs, jsonl, out,
                   origin>>

NextParse == Serialize \/ ParseStream \/ ParseString

SpecParse == InitParse /\ [][NextParse]_vars

\* ------------------------------------------------ two concurrent invocations

\* The locals of the running invocation (the parameters and the let/const
\* bindings of its calls), and the content of its output target.
Locals ==
    [pc |-> pc, opts |-> opts, isMutation |-> isMutation, startTime |-> startTime,
     operation |-> operation, outcome |-> outcome, results |-> results,
     writes |-> writes, log |-> log, observed |-> observed,
     nfAttempt |-> nfAttempt, body |-> body, stream |-> stream,
     caller |-> caller, attempt |-> attempt, currentDelay |-> currentDelay,
     maxRetries |-> maxRetries, initialDelayMs |-> initialDelayMs,
     sendLog |-> sendLog, failures |-> failures, requests |-> requests,
     query |-> query, answer |-> answer, pollRequests |-> pollRequests,
     file |-> file]

\* Two invocations write to the same file.
SharesTargetMutant(o1, o2) == o1.filePath # "" /\ o2.filePath # ""
SharesTarget(o1, o2) == o1.filePath # "" /\ o1.filePath = o2.filePath

\* The running invocation is suspended at its await and the event loop
\* resumes the other one.  Each invocation finds its locals as it left them;
\* the clock and the file system are the same for both.
Switch ==
    /\ cur # 0
    /\ cur' = 3 - cur
    /\ other' = Locals
    /\ pc' = other.pc /\ opts' = other.opts /\ isMutation' = other.isMutation
    /\ startTime' = other.startTime /\ operation' = other.operation
    /\ outcome' = other.outcome /\ results' = other.results
    /\ writes' = other.writes /\ log' = other.log /\ observed' = other.observed
    /\ nfAttempt' = other.nfAttempt /\ body' = other.body /\ stream' = other.stream
    /\ caller' = other.caller /\ attempt' = other.attempt
    /\ currentDelay' = other.currentDelay /\ maxRetries' = other.maxRetries
    /\ initialDelayMs' = other.initialDelayMs /\ sendLog' = other.sendLog
    /\ failures' = other.failures /\ requests' = other.requests
    /\ query' = other.query /\ answer' = other.answer
    /\ pollRequests' = other.pollRequests
    /\ file' = IF SharesTarget(opts, other.opts) THEN file ELSE other.file
    /\ UNCHANGED <<now, faults, parseVars, fixedVars>>

\* The options of the two invocations: the first one writes to out.json, the
\* second one to another file or to the same.
PairOptions(path) ==
    [shop |-> "shop", accessToken |-> "token", body |-> "op", filePath |-> path,
     pollIntervalMs |-> 1000, timeoutMs |-> 1000]

InitPair ==
    /\ pc = "idle" /\ opts = PairOptions("out.json") /\ now = 0
    /\ outcome = NoOutcome /\ faults = 0 /\ budget = MaxFaults
    /\ RunInit /\ SendInit /\ ParseInit
    /\ cur = 1
    /\ \E path \in {"b.json", "out.json"} :
          other = [Locals EXCEPT !.opts = PairOptions(path)]

NextPair == \/ runShopifyBulkQuery
            \/ runShopifyBulkMutation
            \/ StartResponds
            \/ PollResponds
            \/ LoopIteration
            \/ PollDelayElapses
            \/ DownloadResponds
            \/ ParseCompletes
            \/ WriteCompletes
            \/ Switch

SpecPair == InitPair /\ [][NextPair]_vars

\* --------------------------------- one invocation with a short timeout, fair

\* The calls with every required option and a timeout of 1000 ms.
InitLive == Init /\ HasRequired(opts) /\ opts.timeoutMs = 1000

\* Every request is answered, every delay and every write ends.
SpecLive == InitLive /\ [][Next]_vars /\ WF_vars(Next)

\* ------------------- the earlier lifecycle: poll makes up a CREATED snapshot

\* The snapshot the earlier pollBulkOperationStatus returns for a status
\* answer without an operation: { id, status: 'CREATED', errorCode: null,
\* url: null }.
SyntheticSnapshotMutant == Handle("RUNNING", NULL, NULL)
SyntheticSnapshot == Handle("CREATED", NULL, NULL)

\* The status request of the earlier pollBulkOperationStatus is answered with
\* data: the operation of the answer is returned, or the made-up snapshot.
PollRespondsSynthetic ==
    /\ pc = "fetch" /\ caller = "poll"
    /\ \E data \in PollData, lat \in Latencies :
        /\ now' = now + lat
        /\ operation' = IF data = NoHandle THEN SyntheticSnapshot ELSE data
        /\ synthetic' = IF data = NoHandle THEN synthetic + 1 ELSE synthetic
        /\ observed' = Append(observed, operation'.status)
    /\ pc' = "loop"
    /\ UNCHANGED <<outcome, faults, budget, answer, opts, isMutation, startTime, results,
                   file, writes, log, nfAttempt, body, stream, sendVars, parseVars,
                   pairVars, pollRequests>>

\* The earlier downloadResults and what follows it up to the next await: the
\* answer to fetch(url), the whole body read as one text (the empty text for
\* a response without body), the text parsed by the parseJsonl of strings, then
\* the output policy.
DownloadRespondsText ==
    /\ pc = "download"
    /\ \E r \in DownloadAnswers :
        IF r \in {"ok", "nullBody"}
        THEN /\ \E c \in Contents : body' = IF r = "ok" THEN c ELSE <<>>
             /\ LET parsed == parseJsonlString(body') IN
                IF ParseThrows(parsed)
                THEN /\ Throw(ThrewParse(parsed.line))
                     /\ UNCHANGED <<results, writes, log>>
                ELSE /\ results' = parsed.records
                     /\ IF HasFilePath
                        THEN /\ pc' = "write"
                             /\ writes' = writes + 1
                             /\ log' = log \o <<"parse", "write">>
                             /\ UNCHANGED outcome
                        ELSE /\ pc' = "done"
                             /\ outcome' = Returned("records")
                             /\ log' = Append(log, "parse")
                             /\ UNCHANGED writes
        ELSE /\ Throw(Threw("download", "", ""))
             /\ UNCHANGED <<body, results, writes, log>>
    /\ UNCHANGED <<now, faults, answer, opts, isMutation, startTime, operation, file,
                   observed, nfAttempt, stream, sendVars, parseVars, pairVars, fixedVars,
                   pollRequests>>

NextSynthetic == \/ runShopifyBulkQuery
                 \/ runShopifyBulkMutation
                 \/ RequestFails
                 \/ BackoffElapses
                 \/ StartResponds
                 \/ PollRespondsSynthetic
                 \/ LoopIteration
                 \/ PollDelayElapses
                 \/ DownloadRespondsText
                 \/ WriteCompletes

\* Every request is answered, every delay and every write ends.
SpecSynthetic == Init /\ [][NextSynthetic]_vars /\ WF_vars(NextSynthetic)

\* ------------------------------- one invocation whose requests go on failing

\* The calls with every required option, a poll interval of 1000 ms and a
\* timeout of 3000 ms, made at clock 0, with an output target; up to
\* PollFaults requests fail or are answered without an operation.
InitPoll ==
    /\ InitBudget(PollFaults)
    /\ HasRequired(opts) /\ opts.filePath # "" /\ now = 0
    /\ opts.pollIntervalMs = 1000 /\ opts.timeoutMs = 3000

SpecPoll == InitPoll /\ [][Next]_vars

\* ------------------------------------------------------------------ claims

Last(q) == q[Len(q)]
Count(q, e) == Cardinality({i \in 1..Len(q) : q[i] = e})
MissingRequired == opts.shop = "" \/ opts.accessToken = "" \/ opts.body = ""

\* The records each body of Contents holds, line by line (FALSE: a line of it
\* is malformed).
ExpectedRecords(text) ==
    CASE text = <<>> -> <<>>
      [] text = <<"7", "LF">> -> <<Num(7)>>
      [] text = <<"7", "LF", "Q", "x", "Q">> -> <<Num(7), Str(<<"x">>)>>
      [] text = <<"7", "CR", "LF", "LF", "1", "0", "LF">> -> <<Num(7), Num(10)>>
      [] OTHER -> <<Num(0), Num(0), Num(0)>>

\* C1: when shop, accessToken or the operation body is missing or empty, the
\* entry point fails with the validation error, and no request, poll,
\* download or file write is made by the invocation.
C1_Validation ==
    MissingRequired =>
        /\ pc \in {"idle", "done"}
        /\ pc = "done" => outcome = Threw("validation", "", "")
        /\ requests = 0 /\ log = <<>> /\ writes = 0 /\ file = OldFile
        /\ stream = "none"

\* A call without accessToken, and with shop and body, has failed.
C1_Witness ==
    /\ pc = "done" /\ opts.accessToken = "" /\ opts.shop # "" /\ opts.body # ""
    /\ outcome.error = "validation"

\* C2 (as claimed): when start returns a handle and the next snapshot is
\* COMPLETED with a result URL, and the download and the parse succeed, a run
\* without output target returns the records of the downloaded content.
C2_Original ==
    ( /\ pc = "done" /\ opts.filePath = ""
      /\ Len(observed) = 2 /\ observed[1] \in NonTerminal
      /\ observed[2] = "COMPLETED" /\ operation.url # NULL
      /\ outcome.error \notin {"download", "stream", "parse"} )
    => /\ outcome.kind = "records"
       /\ results = ExpectedRecords(body)

C4_Original ==
    ( /\ pc = "done" /\ observed # <<>> /\ Last(observed) = "COMPLETED"
      /\ operation.url = NULL /\ outcome.error # "write" )
    => /\ Count(log, "download") = 0
       /\ opts.filePath = "" => outcome.kind = "records" /\ results = <<>>
       /\ opts.filePath # "" => outcome.kind = "persisted" /\ file = <<>>

\* C5 (as claimed): when the last snapshot is FAILED, CANCELLED or EXPIRED,
\* the run fails with the operation-failed error carrying that status and the
\* snapshot's error code, without download or file write.
C5_Original ==
    (pc = "done" /\ observed # <<>> /\ Last(observed) \in TerminalFailure)
    => /\ outcome = Threw("operationFailed", operation.status, operation.errorCode)
       /\ Count(log, "download") = 0 /\ writes = 0

\* Every request so far was answered, and with a RUNNING snapshot.
AlwaysRunning ==
    /\ faults = 0
    /\ \A i \in 1..Len(observed) : observed[i] = "RUNNING"
    /\ pc \in {"loop", "sleep", "done"} => observed # <<>>

C6_Safe ==
    AlwaysRunning =>
        /\ Count(log, "download") = 0
        /\ outcome.kind \notin {"records", "persisted"}
        /\ pc = "sleep" => now - startTime < opts.timeoutMs
        /\ pc = "done" => /\ outcome = Threw("timeout", "RUNNING", "")
                          /\ now - startTime >= opts.timeoutMs

\* C6: with a timeout of 1000 ms and any poll interval, a run whose every
\* request is answered with RUNNING ends in the timeout error carrying
\* RUNNING, at a moment when at least timeoutMs have passed since the start
\* call; it goes on sleeping only while less has passed, and neither
\* downloads nor returns records.
C6_Timeout == [](C6_Safe) /\ <>(~AlwaysRunning \/ outcome.error = "timeout")

\* The run of the example: timeoutMs = 1000, pollIntervalMs = 2000, two
\* RUNNING snapshots, the timeout error.
C6_Witness ==
    /\ opts.timeoutMs = 1000 /\ opts.pollIntervalMs = 2000
    /\ AlwaysRunning /\ Len(observed) = 2
    /\ outcome = Threw("timeout", "RUNNING", "")

\* C7 (as claimed): the timeout error is raised only when the last snapshot
\* is not terminal.
C7_Original == outcome.error = "timeout" => outcome.status \notin Terminal

RECURSIVE SleepPoll(_)
SleepPoll(n) == IF n = 0 THEN <<>> ELSE <<"sleep", "poll">> \o SleepPoll(n - 1)

\* C8: every poll comes right after one sleep of pollIntervalMs; when the
\* download starts, the snapshots are n non-terminal ones followed by
\* COMPLETED, and the run has made exactly n sleep+poll cycles, which took at
\* least n poll intervals.
C8_PollLoop ==
    /\ \A i \in 1..Len(log) : log[i] = "poll" => i > 1 /\ log[i - 1] = "sleep"
    /\ \A i \in 1..Len(log) : log[i] = "download" =>
          LET n == Len(observed) - 1 IN
          /\ n >= 0
          /\ observed[n + 1] = "COMPLETED"
          /\ \A j \in 1..n : observed[j] \notin Terminal
          /\ SubSeq(log, 1, i - 1) = <<"start">> \o SleepPoll(n)
          /\ now - startTime >= n * opts.pollIntervalMs

\* RUNNING, RUNNING, COMPLETED: the download has started after two cycles.
C8_Witness ==
    /\ observed = <<"RUNNING", "RUNNING", "COMPLETED">>
    /\ log = <<"start", "sleep", "poll", "sleep", "poll", "download">>

RECURSIVE Pow2(_)
Pow2(n) == IF n = 0 THEN 1 ELSE 2 * Pow2(n - 1)

\* C9: when a direct call returns data after k failed requests, it has sent
\* k + 1 requests and slept k times, once between every two consecutive
\* requests, for initialDelayMs, 2 * initialDelayMs, ...,
\* initialDelayMs * 2^(k-1); k is at most maxRetries.
C9_Backoff ==
    (caller = "send" /\ outcome.kind = "data") =>
        LET k == attempt - 1 IN
        /\ k <= maxRetries
        /\ requests = k + 1
        /\ Len(sendLog) = 2 * k + 1
        /\ \A i \in 1..(k + 1) : sendLog[2 * i - 1] = "request"
        /\ \A i \in 1..k : sendLog[2 * i] = ToString(initialDelayMs * Pow2(i - 1))
        /\ now >= initialDelayMs * (Pow2(k) - 1)

\* Two failures, then data: sleeps of 500 and 1000 ms between three requests.
C9_Witness ==
    /\ caller = "send" /\ outcome.kind = "data" /\ initialDelayMs = 500
    /\ sendLog = <<"request", "500", "request", "1000", "request">>

PhysicalLines == ReadLines(jsonl, <<>>, <<>>)

\* The positions of the lines that are neither blank nor a JSON value.
MalformedAt ==
    {k \in 1..Len(PhysicalLines) :
        /\ \E i \in 1..Len(PhysicalLines[k]) : PhysicalLines[k][i] \notin {"SP", "CR", "LF"}
        /\ ~JSONparse(PhysicalLines[k]).ok}

\* C11: when the text has a malformed line, the stream parser fails with the
\* parse error that carries the position of the first malformed line, counted
\* over all lines, blank ones included, and returns no record; without a
\* malformed line it does not fail.
C11_MalformedLine ==
    (origin = "raw" /\ out # NotRun) =>
        IF MalformedAt = {} THEN out.ok
        ELSE /\ ~out.ok
             /\ out.records = <<>>
             /\ \A k \in MalformedAt : out.line <= k
             /\ out.line \in MalformedAt

\* A record, a blank line, then a malformed third line: the error names line 3.
C11_Witness ==
    /\ origin = "raw" /\ jsonl = <<"7", "LF", "LF", "x">>
    /\ out = ParseError(3)

Success == outcome.kind \in {"records", "persisted"}

\* C13: a run ends in records, null or an error.  It ends in records or null
\* only after a COMPLETED snapshot, a download whose body was parsed to its
\* end when there is a result URL, and a write that left the data in the
\* target when there is an output target; a run that ended after a failed
\* start, poll, download, parse or write ended in an error.
C13_NoSwallow ==
    /\ pc = "done" => outcome.kind \in {"records", "persisted", "error"}
    /\ Success =>
          /\ pc = "done"
          /\ observed # <<>> /\ Last(observed) = "COMPLETED"
          /\ operation.status = "COMPLETED"
          /\ operation.url # NULL =>
                /\ Count(log, "download") = 1 /\ stream = "consumed"
                /\ parseJsonl(body).ok /\ results = parseJsonl(body).records
          /\ opts.filePath # "" =>
                outcome.kind = "persisted" /\ writes = 1 /\ file = FileData
    /\ (pc = "done" /\ observed = <<>>) => outcome.kind = "error"
    /\ (pc = "done" /\ Len(observed) < 1 + Count(log, "poll")) => outcome.kind = "error"
    /\ (pc = "done" /\ Count(log, "download") = 1 /\ stream # "consumed") =>
          outcome.error \in {"download", "stream", "parse"}
    /\ (pc = "done" /\ writes = 1 /\ file # FileData) => outcome.error = "write"

\* A write that failed after two records were parsed, leaving the target
\* truncated: the run ended in the write error.
C13_Witness ==
    /\ pc = "done" /\ Len(results) = 2 /\ writes = 1 /\ file = <<>>
    /\ outcome = Threw("write", "", "")

\* C14 (as claimed): after a 2xx response with an errors array, with or
\* without data, the call has failed with the GraphQL error: no backoff sleep
\* and no further request follows.
C14_Original ==
    (failures # <<>> /\ Last(failures) \in {"graphql", "graphqlWithData"}) =>
        pc = "done" /\ outcome = Threw(Last(failures), "", "")

\* C15 (as claimed): after a 4xx response other than 429, or a 2xx response
\* without data, the call has failed: no backoff sleep and no further request
\* follows.
C15_Original ==
    (failures # <<>> /\ Last(failures) \in {"http4xx", "nodata"}) =>
        pc = "done" /\ outcome = Threw(Last(failures), "", "")

Sleeps == Len(sendLog) - Count(sendLog, "request")

C16_Safe ==
    /\ requests = Count(sendLog, "request")
    /\ maxRetries >= 0 =>
          /\ requests <= maxRetries + 1
          /\ Sleeps <= maxRetries
          /\ outcome.kind = "error" =>
                /\ requests = maxRetries + 1 /\ Len(failures) = requests
                /\ outcome = Threw(Last(failures), "", "")
    /\ outcome.error = "definitive" => requests = 0 /\ maxRetries < 0

\* C16: a call with maxRetries = m >= 0 sends at most m + 1 requests and
\* sleeps at most m times, and it ends; when it ends in an error, every one of
\* its m + 1 requests has failed and the error is the one of the last request.
\* The definitive-failure error is thrown only by a call that sent no request.
C16_Bounded == [](C16_Safe) /\ <>(pc = "done")

\* maxRetries = 2: three requests failed, two sleeps, the last error is thrown.
C16_Witness ==
    /\ maxRetries = 2 /\ requests = 3 /\ Sleeps = 2
    /\ failures = <<"http5xx", "http429", "network">>
    /\ outcome = Threw("network", "", "")

\* C17: whatever the failures of a call are, its requests and sleeps
\* alternate, the i-th sleep lasts initialDelayMs * 2^(i-1), the delay in
\* hand is initialDelayMs * 2^(sleeps ended), and the call sends at most
\* maxRetries + 1 requests.
C17_SharedSchedule ==
    (caller = "send") =>
        /\ \A i \in 1..Len(sendLog) :
              sendLog[i] = IF i % 2 = 1 THEN "request"
                           ELSE ToString(initialDelayMs * Pow2(i \div 2 - 1))
        /\ attempt = requests /\ requests <= maxRetries + 1
        /\ currentDelay = initialDelayMs * Pow2(attempt - 1)
        /\ Len(failures) \in {attempt - 1, attempt}

\* A network failure, a 503 and a network failure again: sleeps of 1000, 2000
\* and 4000 ms.
C17_Witness ==
    /\ pc = "backoff" /\ initialDelayMs = 1000
    /\ failures = <<"network", "http5xx", "network">>
    /\ sendLog = <<"request", "1000", "request", "2000", "request", "4000">>

C18_Safe ==
    /\ nfAttempt \in 0..4
    /\ pc = "nfsleep" => nfAttempt <= 3 /\ caller = "poll"
    /\ outcome.error = "notFound" => nfAttempt = 4 /\ faults >= 4
    /\ operation \in Handles \cup {NoHandle}
    /\ Len(observed) <= 1 + Count(log, "poll")

\* The not-found delay lasts 1000 ms and is followed by a status request; no
\* snapshot is taken meanwhile.
C18_Step ==
    pc = "nfsleep" =>
        /\ now' = now + 1000 /\ nfAttempt' = nfAttempt + 1
        /\ pc' = "fetch" /\ requests' = requests + 1
        /\ operation' = operation /\ observed' = observed

\* C18: after a status answer without an operation the poll sleeps 1000 ms
\* and asks again, at most 3 times; the not-found error is thrown after the
\* fourth such answer of one poll and not before; the snapshot of the loop is
\* always one the API answered with, at most one for each poll.
C18_NotFound == [](C18_Safe) /\ [][C18_Step]_vars

\* Four status answers without an operation in one poll: the not-found error.
C18_Witness ==
    /\ outcome = Threw("notFound", "", "") /\ nfAttempt = 4
    /\ log = <<"start", "sleep", "poll">> /\ requests = 5

Elapsed == now - startTime

\* The clock is read once, before the start request is sent; a sleep is begun
\* only by a loop test that found less than timeoutMs elapsed since then; a
\* loop test that finds timeoutMs or more elapsed ends the run.
C19_Step ==
    /\ pc = "idle" /\ pc' = "fetch" => startTime' = now /\ now' = now
    /\ pc # "idle" => startTime' = startTime
    /\ pc = "loop" /\ pc' = "sleep" => Elapsed < opts.timeoutMs /\ now' = now
    /\ pc = "loop" /\ Elapsed >= opts.timeoutMs =>
          pc' = "done" /\ outcome'.error = "timeout"
    /\ Len(log') > Len(log) /\ Last(log') = "poll" => pc = "sleep"

\* C19: the elapsed time the loop tests is the time since the clock was read
\* before the start request; no poll resets it, and no sleep and no poll is
\* begun by an iteration that found timeoutMs or more elapsed.
C19_OverallBudget ==
    /\ [](pc = "sleep" => Elapsed < opts.timeoutMs)
    /\ [](pc # "idle" => startTime \in ClockInputs)
    /\ [][C19_Step]_vars

\* A run called at clock 500 with a budget of 2000 ms: two polls of 1000 ms
\* each, then the timeout, 2000 ms after the start.
C19_Witness ==
    /\ startTime = 500 /\ opts.timeoutMs = 2000 /\ now = 2500
    /\ log = <<"start", "sleep", "poll", "sleep", "poll">>
    /\ outcome = Threw("timeout", "RUNNING", "")

\* C20 (as claimed): when the timeout error is thrown, the time elapsed since
\* the start call exceeds timeoutMs by at most one poll interval and the
\* latency of one request.
C20_Original ==
    outcome.error = "timeout" =>
        Elapsed - opts.timeoutMs <= opts.pollIntervalMs + 500 * MaxLatencySteps

\* What holds of an invocation that runs alone: its steps follow from the
\* snapshots it was answered with, its records are those of the body it
\* downloaded, and its target holds the data it wrote.
AsAlone ==
    /\ requests = 1 + Count(log, "poll") \/ pc = "idle"
    /\ Len(observed) \in {Count(log, "poll"), 1 + Count(log, "poll")} \/ pc = "idle"
    /\ \A i \in 1..Len(log) : log[i] = "poll" => i > 1 /\ log[i - 1] = "sleep"
    /\ \A i \in 1..Len(log) : log[i] = "download" =>
          /\ observed[Len(observed)] = "COMPLETED"
          /\ SubSeq(log, 1, i - 1) = <<"start">> \o SleepPoll(Len(observed) - 1)
    /\ outcome.error = "operationFailed" =>
          /\ Last(observed) \in TerminalFailure
          /\ outcome.status = Last(observed)
    /\ outcome.error = "timeout" => outcome.status = Last(observed)
    /\ (pc = "done" /\ stream = "consumed") => results = ExpectedRecords(body)
    /\ outcome.kind = "persisted" =>
          /\ writes = 1
          /\ file = IF operation.url = NULL THEN <<>> ELSE StringifyArray(results)
    /\ writes = 0 => file = OldFile

\* A step of one invocation leaves the locals of the other as they are, and a
\* turn of the event loop hands each invocation its own locals back.
C12_Step ==
    /\ cur' = cur => other' = other
    /\ cur' # cur =>
          \A f \in DOMAIN other \ {"file"} : other'[f] = Locals[f] /\ Locals'[f] = other[f]

C12_SameTarget ==
    /\ opts.filePath = "out.json" /\ other.opts.filePath = "out.json"
    /\ outcome.kind = "persisted" /\ other.outcome.kind = "persisted"
    /\ results = <<Num(7), Num(10)>> /\ file = StringifyArray(<<Num(7)>>)

\* C21: of the snapshots a run has observed, only the last one may be
\* terminal, and once the last one is terminal the run sends no request any
\* more and observes nothing more.
C21_TerminalLast ==
    /\ [](\A i \in 1..(Len(observed) - 1) : observed[i] \notin Terminal)
    /\ [][(observed # <<>> /\ Last(observed) \in Terminal) =>
              requests' = requests /\ observed' = observed]_vars

\* CREATED, RUNNING, then CANCELLED: the run has ended.
C21_Witness ==
    /\ pc = "done" /\ observed = <<"CREATED", "RUNNING", "CANCELLED">>
    /\ requests = 3

C22_Safe ==
    /\ pc # "idle" /\ HasRequired(opts) => log # <<>> /\ log[1] = "start"
    /\ Count(log, "start") <= 1
    /\ caller = "start" =>
          /\ Count(sendLog, "request") = requests
          /\ query = [name |-> IF isMutation THEN "bulkOperationRunMutation"
                                ELSE "bulkOperationRunQuery",
                       variables |-> <<opts.body>>]
    /\ caller = "poll" => query.name = "currentBulkOperation"
    /\ answer # NoAnswer =>
          /\ answer.userErrors > 0 => outcome = Threw("userErrors", "", "")
          /\ answer.userErrors = 0 /\ answer.bulkOperation = NoHandle =>
                outcome = Threw("start", "", "")
          /\ outcome.error \in {"userErrors", "start"} \/ observed # <<>>
    /\ outcome.error \in {"userErrors", "start"} =>
          /\ pc = "done" /\ caller = "start" /\ log = <<"start">>
          /\ observed = <<>> /\ stream = "none"
          /\ writes = 0 /\ file = OldFile

\* C22: a run calls the start mutation once, bulkOperationRunQuery for a
\* query and bulkOperationRunMutation for a mutation, with the operation body
\* as its variable.  An answer with user errors, with or without a handle,
\* ends the run in the user error; one without user errors and without handle
\* ends it in the start error; after either, nothing is polled, downloaded,
\* written or started again.
C22_Start ==
    /\ [](C22_Safe)
    /\ [][outcome.error \in {"userErrors", "start"} => UNCHANGED <<requests, log, query>>]_vars

\* A mutation whose start answer has a user error and a handle as well.
C22_Witness ==
    /\ isMutation /\ query.name = "bulkOperationRunMutation"
    /\ answer.userErrors = 1 /\ answer.bulkOperation.status = "CREATED"
    /\ outcome = Threw("userErrors", "", "") /\ requests = 1

\* C23 (as claimed): the lifecycle sends each of its operations once: at most
\* one download in a run, a failed download ends the run, and one status
\* request in each poll.
C23_Original ==
    /\ Count(log, "download") <= 1
    /\ (pc # "download" /\ Count(log, "download") = 1 /\ stream = "none") =>
          pc = "done" /\ outcome = Threw("download", "", "")
    /\ nfAttempt <= 1
    /\ pc # "nfsleep"

ErrorsBeforeWrite ==
    {"validation", "userErrors", "start", "notFound", "operationFailed", "timeout",
     "download", "stream", "parse"} \cup FailureKinds

\* C27: a run that ends in an error other than the write error has not
\* written: the target holds what it held.  A run writes at most once, only
\* to a target it was given, and only after the body was parsed to its end
\* or a COMPLETED snapshot came without result URL.
C27_Frame ==
    /\ writes \in {0, 1}
    /\ writes = 0 => file = OldFile
    /\ outcome.error \in ErrorsBeforeWrite => writes = 0 /\ file = OldFile
    /\ writes = 1 =>
          /\ opts.filePath # ""
          /\ operation.status = "COMPLETED"
          /\ IF operation.url = NULL THEN stream = "none"
             ELSE /\ stream = "consumed" /\ parseJsonl(body).ok
                  /\ results = parseJsonl(body).records
          /\ pc = "write" \/ Success \/ outcome.error = "write"

\* A run with an output target whose download failed: the old content is
\* still there.
C27_Witness ==
    /\ opts.filePath = "out.json" /\ outcome = Threw("download", "", "")
    /\ writes = 0 /\ file = OldFile

\* C25 (as claimed): handed the same text, the parser of the string and the
\* parser of the stream return the same records or fail with the parse error
\* of the same line.
C25_Original ==
    (out # NotRun /\ outString # NotRun) => out = outString

\* The lines that are not blank.
NonBlankAt ==
    {k \in 1..Len(PhysicalLines) :
        \E i \in 1..Len(PhysicalLines[k]) : PhysicalLines[k][i] \notin {"SP", "CR", "LF"}}

\* C26 (as claimed): for a text without malformed line, either parser returns
\* one record for each line that is not blank, and no record for a text
\* without lines.
C26_Original ==
    MalformedAt = {} =>
        /\ out # NotRun =>
              out.ok /\ Len(out.records) = Cardinality(NonBlankAt)
        /\ outString # NotRun =>
              outString.ok /\ Len(outString.records) = Cardinality(NonBlankAt)

\* An invocation has an outcome exactly when it has ended, the outcome is the
\* records, the persisted signal or an error, and it ends in the timeout
\* error whenever the loop condition is tested with timeoutMs or more elapsed.
C28_Safe ==
    /\ pc = "done" <=> outcome # NoOutcome
    /\ pc = "done" => outcome.kind \in {"records", "persisted", "error"}
    /\ outcome.kind = "error" <=> outcome.error # ""

C28_Step ==
    /\ outcome # NoOutcome => outcome' = outcome
    /\ (pc = "loop" /\ Elapsed >= opts.timeoutMs) =>
          pc' = "done" /\ outcome' = Threw("timeout", operation.status, "")
    /\ (pc = "loop" /\ Elapsed < opts.timeoutMs /\ operation.status \in NonTerminal) =>
          pc' = "sleep" /\ outcome' = NoOutcome

\* C28: when every request is answered and every delay ends, an invocation
\* ends, with one outcome that never changes: the records, the persisted
\* signal or an error.  Whatever the statuses answered, CANCELING (none of the
\* six named statuses, polled again like CREATED and RUNNING) included, the
\* invocation ends at the latest when the loop condition is tested with
\* timeoutMs or more elapsed, in the timeout error.
C28_Terminates ==
    /\ [](C28_Safe)
    /\ [][C28_Step]_vars
    /\ <>(pc = "done")

\* A run that only ever saw CANCELING, twice, and ended in the timeout error.
C28_Witness ==
    /\ pc = "done" /\ observed = <<"CANCELING", "CANCELING">>
    /\ outcome = Threw("timeout", "CANCELING", "")
    /\ Elapsed >= opts.timeoutMs

\* Every status request answered so far, and at least one, was answered
\* without an operation.
AllNotFound == Len(observed) >= 2 /\ synthetic = Len(observed) - 1

C29_Safe ==
    /\ outcome.error # "notFound" /\ pc # "nfsleep"
    /\ synthetic > 0 => Count(observed, "CREATED") >= synthetic
    /\ (AllNotFound /\ pc \in {"loop", "sleep"}) => operation = Handle("CREATED", NULL, NULL)
    /\ (AllNotFound /\ pc = "done" /\ outcome.error \notin FailureKinds) =>
          /\ outcome = Threw("timeout", "CREATED", "")
          /\ Elapsed >= opts.timeoutMs
          /\ Count(log, "download") = 0 /\ writes = 0

C29_Step ==
    /\ synthetic' # synthetic =>
          /\ synthetic' = synthetic + 1
          /\ operation' = Handle("CREATED", NULL, NULL)
          /\ observed' = Append(observed, "CREATED")
          /\ pc' = "loop" /\ outcome' = NoOutcome
    /\ (pc = "loop" /\ AllNotFound /\ Elapsed < opts.timeoutMs) =>
          pc' = "sleep" /\ outcome' = NoOutcome

\* C29: in the earlier lifecycle, a status answer without an operation gives
\* the snapshot with status CREATED and without URL, and never an error.  A
\* run whose status requests are all answered that way goes on sleeping and
\* polling while less than timeoutMs has elapsed, and ends in the timeout
\* error carrying CREATED, never in a not-found error.
C29_SyntheticSnapshot ==
    /\ [](C29_Safe)
    /\ [][C29_Step]_vars
    /\ <>(pc = "done")

\* RUNNING, then two status answers without an operation, observed as
\* CREATED, then the timeout error.
C29_Witness ==
    /\ pc = "done" /\ faults = 0 /\ synthetic = 2
    /\ observed = <<"RUNNING", "CREATED", "CREATED">>
    /\ outcome = Threw("timeout", "CREATED", "")

\* The requests one call of pollBulkOperationStatus sends, at most.
MaxPollRequests == (maxPollNotFoundRetries + 1) * (DEFAULT_MAX_RETRIES + 1)

C30_Safe ==
    /\ attempt <= DEFAULT_MAX_RETRIES + 1
    /\ nfAttempt <= maxPollNotFoundRetries + 1
    /\ pollRequests <= MaxPollRequests
    /\ (caller = "poll" /\ pc \in {"fetch", "backoff", "nfsleep"}) =>
          /\ 1 <= nfAttempt /\ 1 <= attempt
          /\ pollRequests <= (nfAttempt - 1) * (DEFAULT_MAX_RETRIES + 1) + attempt
    /\ pc \in {"backoff", "nfsleep"} => outcome = NoOutcome

C30_Step ==
    /\ pc = "sleep" =>
          pc' = "fetch" /\ nfAttempt' = 1 /\ attempt' = 1 /\ pollRequests' = 1
    /\ pc = "nfsleep" =>
          /\ pc' = "fetch" /\ outcome' = NoOutcome
          /\ nfAttempt' = nfAttempt + 1 /\ attempt' = 1
          /\ pollRequests' = pollRequests + 1
    /\ pc = "backoff" =>
          /\ pc' = "fetch" /\ outcome' = NoOutcome
          /\ attempt' = attempt + 1 /\ nfAttempt' = nfAttempt
    /\ (pc = "fetch" /\ pc' = "backoff") => nfAttempt' = nfAttempt /\ attempt' = attempt
    /\ (pc = "fetch" /\ pc' = "nfsleep") => nfAttempt' = nfAttempt
    /\ (outcome'.error = "timeout" /\ outcome.error # "timeout") => pc = "loop"

\* C30: the attempt counter of pollBulkOperationStatus is set to 1 by every
\* poll of a run and counts the status answers without an operation only;
\* the attempt counter of makeShopifyRequest starts at 1 with each of them.
\* One poll sends at most (3 + 1) * (3 + 1) = 16 requests.  A not-found delay
\* and a backoff delay are always followed by the next request, whatever time
\* has elapsed: the timeout error is raised by the loop test only.
C30_PollCounter == [](C30_Safe) /\ [][C30_Step]_vars

\* The second poll of a run is at its 16th request, long after timeoutMs
\* have elapsed; the first poll had sent two.
C30_Witness ==
    /\ pc = "fetch" /\ caller = "poll" /\ Count(log, "poll") = 2
    /\ pollRequests = MaxPollRequests /\ nfAttempt = 4 /\ attempt = 4
    /\ requests = 1 + 2 + MaxPollRequests
    /\ Elapsed > opts.timeoutMs

====
